---- MODULE Spec2Model ----
(***************************************************************************)
(* A model of raml2html's index.js: the render orchestrator (a promise     *)
(* chain parse -> processRamlObj -> postProcessHtml) and the default       *)
(* configuration built by getDefaultConfig, with the two helpers the       *)
(* default renderer injects onto the RAML object (securitySchemeWithName,  *)
(* renderSecuredBy) and its '&quot;' un-escaping.                          *)
(*                                                                         *)
(* JavaScript objects are modelled by identity: a configuration is a key   *)
(* of cfgHeap, a RAML object is a key of objConfig (its config field).     *)
(* Promise callbacks run to completion, one per step.                      *)
(***************************************************************************)
EXTENDS Integers, Sequences, FiniteSets, TLC

VARIABLES
    pc,         \* per invocation: where its promise chain stands
    source,     \* per invocation: the source argument of render
    config,     \* per invocation: render's local variable config (a reference)
    given,      \* per invocation: the configuration as it was when render was called
    ramlObj,    \* per invocation: the object the parser resolved with
    settled,    \* per invocation: the settlement of the promise it awaits
    outcome,    \* per invocation: the state of the promise render returned
    log,        \* per invocation: the calls made to, and answers of, collaborators
    cfgHeap,    \* the configuration objects, by reference
    objConfig,  \* the config field of every RAML object, by reference
    fn,         \* which pure function of the default configuration is exercised
    arg,        \* its input
    ret         \* its result

renderVars == <<pc, source, config, given, ramlObj, settled, outcome, log, cfgHeap, objConfig>>
fnVars == <<fn, arg, ret>>
vars == <<pc, source, config, given, ramlObj, settled, outcome, log, cfgHeap, objConfig, fn, arg, ret>>

None == "none"
Undefined == "undefined"

-----------------------------------------------------------------------------
(* render *)

\* The render invocations whose callbacks may interleave.
Invocations == {"a", "b"}

\* pjson.version
Version == "pjson.version"

\* The four shapes of a source; "obj1" is one pre-parsed object, which may be
\* handed to more than one invocation.
StringSources == {"path", "url", "text"}
PreParsed == {"obj1"}
Sources == StringSources \cup PreParsed

\* A string source is parsed into a fresh object, one per invocation.
FreshObj(i) == "parsed-" \o i
ObjIds == PreParsed \cup {FreshObj(i) : i \in Invocations}

\* A configuration object is either the caller's or the {} substituted for an
\* absent one; either way one per invocation, unless the caller reuses one.
CfgRef(i) == "cfg-" \o i
CfgIds == {CfgRef(i) : i \in Invocations}

\* What a caller-supplied callable does when called: it returns a promise that
\* resolves, a promise that rejects, or it throws.
Behaviours == {"resolves", "rejects", "throws"}
Callables == {"absent"} \cup Behaviours
Configs == [processRamlObj : Callables, postProcessHtml : Callables,
            raml2HtmlVersion : {"absent"}]
EmptyConfig == [processRamlObj |-> "absent", postProcessHtml |-> "absent",
                raml2HtmlVersion |-> "absent"]

\* The values a renderer resolves with, and what the post-processor makes of one.
Htmls == {"<x>", "<y>"}
PostProcessed(html) == "post(" \o html \o ")"

ParseError == "E_parse"
RenderError == "E_render"
PostError == "E_post"

Pending == [state |-> "pending", val |-> None]
Fulfilled(v) == [state |-> "fulfilled", val |-> v]
Rejected(e) == [state |-> "rejected", val |-> e]

\* raml2obj.parse(source): a pre-parsed object is handed back as it is, a
\* string (path, url, text) gives a new object.
ParsedObject(i, src) == IF src \in PreParsed THEN src ELSE FreshObj(i)

\* config = config || {}
DefaultConfig(cfgArg) == IF cfgArg.kind = "absent" THEN EmptyConfig ELSE cfgArg.val

\* The configuration arguments a caller can pass, given the configuration
\* objects that exist.
ConfigArgs(heap) ==
    [kind : {"absent"}, val : {EmptyConfig}, ref : {None}]
    \cup [kind : {"new"}, val : Configs, ref : {None}]
    \cup [kind : {"reuse"}, val : {EmptyConfig}, ref : DOMAIN heap]

\* config.raml2HtmlVersion = pjson.version
StampVersion(c) == [c EXCEPT !.raml2HtmlVersion = Version]

\* A render that calls processRamlObj before it has attached the configuration.
AttachConfigTooLate(oc, o, c) == oc

\* ramlObj.config = config
AttachConfig(oc, o, c) == [oc EXCEPT ![o] = c]

\* if (config.processRamlObj)
HasProcessRamlObj(c) == c.processRamlObj # "absent"

\* if (config.postProcessHtml)
HasPostProcessHtml(c) == c.postProcessHtml # "absent"

\* A render that wraps the error of a failed stage in a new one.
PropagateWrapped(e) == [state |-> "rejected", val |-> "Error(" \o e \o ")"]

\* What the promise render returned is settled with when a stage fails with e.
Propagate(e) == Rejected(e)

\* A render that calls postProcessHtml without the renderer's html.
PostProcessArgDropped(html) == "undefined"

\* The argument render hands to postProcessHtml, given the renderer's html.
PostProcessArg(html) == html

\* return html
RenderedResult(html) == Fulfilled(html)

\* A render whose callback forgets to return the object.
BareResultForgotten(o) == [state |-> "fulfilled", val |-> "undefined"]

\* return ramlObj
BareResult(o) == Fulfilled(o)

Append1(l, i, e) == [l EXCEPT ![i] = Append(@, e)]

\* render(source, config), lines 19-23: substitute {} for an absent
\* configuration, stamp the version, start the parser. The caller passes no
\* configuration, a new configuration object, or one it already used.
Render(i, src, cfgArg) ==
    /\ pc[i] = "idle"
    /\ LET ref == IF cfgArg.kind = "reuse" THEN cfgArg.ref ELSE CfgRef(i)
           old == IF cfgArg.kind = "reuse" THEN cfgHeap[cfgArg.ref]
                  ELSE DefaultConfig(cfgArg)
       IN /\ config' = [config EXCEPT ![i] = ref]
          /\ given' = [given EXCEPT ![i] = old]
          /\ cfgHeap' = (ref :> StampVersion(old)) @@ cfgHeap
    /\ source' = [source EXCEPT ![i] = src]
    /\ log' = Append1(log, i, <<"parse", src>>)
    /\ pc' = [pc EXCEPT ![i] = "parsing"]
    /\ UNCHANGED <<ramlObj, settled, outcome, objConfig>>

\* The parser's promise settles.
ParserSettles(i) ==
    /\ pc[i] = "parsing"
    /\ \E s \in {Fulfilled(ParsedObject(i, source[i])), Rejected(ParseError)} :
          /\ settled' = [settled EXCEPT ![i] = s]
          /\ log' = Append1(log, i, <<"parser " \o s.state, s.val>>)
    /\ pc' = [pc EXCEPT ![i] = "parsed"]
    /\ UNCHANGED <<source, config, given, ramlObj, outcome, cfgHeap, objConfig>>

\* The callback of lines 23-36, for a parser's promise that resolved.
OnParsed(i) ==
    /\ pc[i] = "parsed"
    /\ settled[i].state = "fulfilled"
    /\ LET o == settled[i].val
           c == cfgHeap[config[i]]
       IN /\ ramlObj' = [ramlObj EXCEPT ![i] = o]
          /\ objConfig' = AttachConfig(objConfig, o, config[i])
          /\ IF HasProcessRamlObj(c)
             THEN /\ IF c.processRamlObj = "throws"
                     THEN /\ log' = [log EXCEPT ![i] = @ \o <<<<"processRamlObj", o>>,
                                                              <<"renderer threw", RenderError>>>>]
                          /\ outcome' = [outcome EXCEPT ![i] = Propagate(RenderError)]
                          /\ pc' = [pc EXCEPT ![i] = "done"]
                          /\ settled' = [settled EXCEPT ![i] = Rejected(RenderError)]
                     ELSE /\ log' = Append1(log, i, <<"processRamlObj", o>>)
                          /\ pc' = [pc EXCEPT ![i] = "rendering"]
                          /\ settled' = [settled EXCEPT ![i] = Pending]
                          /\ UNCHANGED outcome
             ELSE /\ outcome' = [outcome EXCEPT ![i] = BareResult(o)]
                  /\ pc' = [pc EXCEPT ![i] = "done"]
                  /\ UNCHANGED <<log, settled>>
    /\ UNCHANGED <<source, config, given, cfgHeap>>

\* No rejection handler is registered anywhere: a rejection of the promise
\* the chain awaits passes to the promise render returned.
OnRejected(i) ==
    /\ pc[i] \in {"parsed", "rendered", "postProcessed"}
    /\ settled[i].state = "rejected"
    /\ outcome' = [outcome EXCEPT ![i] = Propagate(settled[i].val)]
    /\ pc' = [pc EXCEPT ![i] = "done"]
    /\ UNCHANGED <<source, config, given, ramlObj, settled, log, cfgHeap, objConfig>>

\* The promise processRamlObj returned settles.
RendererSettles(i) ==
    /\ pc[i] = "rendering"
    /\ \E s \in IF cfgHeap[config[i]].processRamlObj = "resolves"
                THEN {Fulfilled(h) : h \in Htmls}
                ELSE {Rejected(RenderError)} :
          /\ settled' = [settled EXCEPT ![i] = s]
          /\ log' = Append1(log, i, <<"renderer " \o s.state, s.val>>)
    /\ pc' = [pc EXCEPT ![i] = "rendered"]
    /\ UNCHANGED <<source, config, given, ramlObj, outcome, cfgHeap, objConfig>>

\* The callback of lines 27-32, for a renderer's promise that resolved.
OnRendered(i) ==
    /\ pc[i] = "rendered"
    /\ settled[i].state = "fulfilled"
    /\ LET html == settled[i].val
           c == cfgHeap[config[i]]
       IN IF HasPostProcessHtml(c)
          THEN /\ IF c.postProcessHtml = "throws"
                  THEN /\ log' = [log EXCEPT ![i] = @ \o <<<<"postProcessHtml", PostProcessArg(html)>>,
                                                           <<"postProcessor threw", PostError>>>>]
                       /\ outcome' = [outcome EXCEPT ![i] = Propagate(PostError)]
                       /\ pc' = [pc EXCEPT ![i] = "done"]
                       /\ settled' = [settled EXCEPT ![i] = Rejected(PostError)]
                  ELSE /\ log' = Append1(log, i, <<"postProcessHtml", PostProcessArg(html)>>)
                       /\ pc' = [pc EXCEPT ![i] = "postProcessing"]
                       /\ settled' = [settled EXCEPT ![i] = Pending]
                       /\ UNCHANGED outcome
          ELSE /\ outcome' = [outcome EXCEPT ![i] = RenderedResult(html)]
               /\ pc' = [pc EXCEPT ![i] = "done"]
               /\ UNCHANGED <<log, settled>>
    /\ UNCHANGED <<source, config, given, ramlObj, cfgHeap, objConfig>>

\* The promise postProcessHtml returned settles; the post-processor's result
\* is a function of the html it was given.
PostProcessorSettles(i) ==
    /\ pc[i] = "postProcessing"
    /\ LET html == log[i][Len(log[i])][2]
           s == IF cfgHeap[config[i]].postProcessHtml = "resolves"
                THEN Fulfilled(PostProcessed(html))
                ELSE Rejected(PostError)
       IN /\ settled' = [settled EXCEPT ![i] = s]
          /\ log' = Append1(log, i, <<"postProcessor " \o s.state, s.val>>)
    /\ pc' = [pc EXCEPT ![i] = "postProcessed"]
    /\ UNCHANGED <<source, config, given, ramlObj, outcome, cfgHeap, objConfig>>

\* The inner promise of line 29 resolved: so does the promise render returned.
OnPostProcessed(i) ==
    /\ pc[i] = "postProcessed"
    /\ settled[i].state = "fulfilled"
    /\ outcome' = [outcome EXCEPT ![i] = Fulfilled(settled[i].val)]
    /\ pc' = [pc EXCEPT ![i] = "done"]
    /\ UNCHANGED <<source, config, given, ramlObj, settled, log, cfgHeap, objConfig>>

InitRender ==
    /\ pc = [i \in Invocations |-> "idle"]
    /\ source = [i \in Invocations |-> None]
    /\ config = [i \in Invocations |-> None]
    /\ given = [i \in Invocations |-> EmptyConfig]
    /\ ramlObj = [i \in Invocations |-> None]
    /\ settled = [i \in Invocations |-> Pending]
    /\ outcome = [i \in Invocations |-> Pending]
    /\ log = [i \in Invocations |-> <<>>]
    /\ cfgHeap = [r \in {} |-> EmptyConfig]
    /\ objConfig = [o \in ObjIds |-> None]

InitFnIdle ==
    /\ fn = None
    /\ arg = None
    /\ ret = None

Init == InitRender /\ InitFnIdle

Next ==
    \/ \E i \in Invocations, src \in Sources :
          \E cfgArg \in ConfigArgs(cfgHeap) :
             Render(i, src, cfgArg) /\ UNCHANGED fnVars
    \/ \E i \in Invocations : ParserSettles(i) /\ UNCHANGED fnVars
    \/ \E i \in Invocations : OnParsed(i) /\ UNCHANGED fnVars
    \/ \E i \in Invocations : OnRejected(i) /\ UNCHANGED fnVars
    \/ \E i \in Invocations : RendererSettles(i) /\ UNCHANGED fnVars
    \/ \E i \in Invocations : OnRendered(i) /\ UNCHANGED fnVars
    \/ \E i \in Invocations : PostProcessorSettles(i) /\ UNCHANGED fnVars
    \/ \E i \in Invocations : OnPostProcessed(i) /\ UNCHANGED fnVars

Spec == Init /\ [][Next]_vars

-----------------------------------------------------------------------------
(* Properties of render *)

Tag(i, k) == log[i][k][1]
Positions(i, tag) == {k \in 1..Len(log[i]) : Tag(i, k) = tag}
Logged(i, tag) == Positions(i, tag) # {}
\* The value logged with the one entry under tag.
ValueOf(i, tag) == log[i][CHOOSE k \in Positions(i, tag) : TRUE][2]
ActiveConfig(i) == cfgHeap[config[i]]
FailureTags == {"parser rejected", "renderer rejected", "renderer threw",
                "postProcessor rejected", "postProcessor threw"}
CallTags == {"parse", "processRamlObj", "postProcessHtml"}

\* C1: when the configuration has no processRamlObj (an absent configuration
\* counts as {}, and one with only postProcessHtml is included), the step that
\* settles render's promise resolves it with the very object the parser
\* resolved with, and at that step the object's config field refers to the
\* invocation's configuration, which is the configuration render was given with
\* raml2HtmlVersion set to the package version and nothing else changed: for
\* {} it is exactly {raml2HtmlVersion: <version>}.
C1_ResolvesWithParsedObject ==
    [][\A i \in Invocations :
          (/\ pc[i] = "parsed"
           /\ settled[i].state = "fulfilled"
           /\ pc'[i] # "parsed"
           /\ given[i].processRamlObj = "absent")
          => /\ outcome'[i] = [state |-> "fulfilled", val |-> ValueOf(i, "parser fulfilled")]
             /\ objConfig'[outcome'[i].val] = config[i]
             /\ cfgHeap'[config[i]] = [given[i] EXCEPT !.raml2HtmlVersion = Version]
             /\ (given[i] = EmptyConfig =>
                   cfgHeap'[config[i]] = [processRamlObj |-> "absent",
                                          postProcessHtml |-> "absent",
                                          raml2HtmlVersion |-> Version])]_vars

\* An invocation given only a postProcessHtml has resolved with the parsed
\* object, which carries its stamped configuration.
C1_Witness ==
    \E i \in Invocations :
       /\ pc[i] = "done"
       /\ given[i].processRamlObj = "absent"
       /\ given[i].postProcessHtml = "resolves"
       /\ outcome[i] = [state |-> "fulfilled", val |-> ramlObj[i]]
       /\ ramlObj[i] \in ObjIds
       /\ objConfig[ramlObj[i]] = config[i]
       /\ ActiveConfig(i).raml2HtmlVersion = Version

\* C2: once render's promise has resolved for a configuration with a
\* processRamlObj whose promise resolved with x: without postProcessHtml the
\* promise resolved with x; with postProcessHtml g, g was called with exactly x
\* and the promise resolved with what g(x) resolved with.
C2_ResolvesWithRendererOrPostProcessor ==
    \A i \in Invocations :
       (/\ pc[i] = "done"
        /\ given[i].processRamlObj # "absent"
        /\ Logged(i, "renderer fulfilled")
        /\ outcome[i].state = "fulfilled")
       => LET x == ValueOf(i, "renderer fulfilled")
          IN IF given[i].postProcessHtml = "absent"
             THEN outcome[i].val = x
             ELSE /\ ValueOf(i, "postProcessHtml") = x
                  /\ outcome[i].val = ValueOf(i, "postProcessor fulfilled")
                  /\ outcome[i].val = PostProcessed(x)

\* One invocation resolved with its renderer's html, another with the
\* post-processed html.
C2_Witness ==
    \E i, j \in Invocations :
       /\ pc[i] = "done" /\ pc[j] = "done"
       /\ given[i].processRamlObj = "resolves" /\ given[i].postProcessHtml = "absent"
       /\ outcome[i] = [state |-> "fulfilled", val |-> "<x>"]
       /\ given[j].processRamlObj = "resolves" /\ given[j].postProcessHtml = "resolves"
       /\ outcome[j] = [state |-> "fulfilled", val |-> PostProcessed("<x>")]

\* C3: in one invocation the parser, processRamlObj and postProcessHtml are
\* each called at most once and in that order; processRamlObj is called only
\* right after the parser's promise resolved, with the object whose config
\* field already refers to the invocation's configuration; postProcessHtml is
\* called only right after processRamlObj's promise resolved; postProcessHtml
\* is never called when processRamlObj is absent.
C3_Order ==
    \A i \in Invocations :
       /\ \A t \in CallTags : Cardinality(Positions(i, t)) <= 1
       /\ Len(log[i]) > 0 => Tag(i, 1) = "parse"
       /\ \A k \in Positions(i, "processRamlObj") :
             /\ k > 1
             /\ Tag(i, k - 1) = "parser fulfilled"
             /\ log[i][k][2] = log[i][k - 1][2]
             /\ \A m \in Positions(i, "parse") : m < k
       /\ \A k \in Positions(i, "postProcessHtml") :
             /\ k > 1
             /\ Tag(i, k - 1) = "renderer fulfilled"
             /\ \E m \in Positions(i, "processRamlObj") : m < k
             /\ given[i].processRamlObj # "absent"
       /\ (pc[i] # "idle" /\ given[i].processRamlObj = "absent")
             => ~Logged(i, "processRamlObj") /\ ~Logged(i, "postProcessHtml")

C3_AttachedBeforeCall ==
    \A i \in Invocations :
       (Len(log'[i]) > Len(log[i]) /\ "processRamlObj" \in {log'[i][k][1] : k \in Len(log[i]) + 1 .. Len(log'[i])})
       => objConfig'[ValueOf(i, "parser fulfilled")] = config[i]

C3_ParseThenRenderThenPostProcess == []C3_Order /\ [][C3_AttachedBeforeCall]_vars

\* An invocation has run all three stages.
C3_Witness ==
    \E i \in Invocations :
       /\ pc[i] = "done"
       /\ [k \in 1..Len(log[i]) |-> Tag(i, k)]
            = <<"parse", "parser fulfilled", "processRamlObj", "renderer fulfilled",
                "postProcessHtml", "postProcessor fulfilled">>

\* C4: when a stage fails with E (the parser's promise rejects, processRamlObj
\* or postProcessHtml rejects or throws), nothing is called after it, render's
\* promise is not resolved, and once the failure has been passed on the promise
\* is rejected with that same E; no stage is called twice, and a settled
\* promise never changes.
C4_Failure ==
    \A i \in Invocations :
       /\ Cardinality(UNION {Positions(i, t) : t \in FailureTags}) <= 1
       /\ \A t \in FailureTags : \A k \in Positions(i, t) :
             /\ k = Len(log[i])
             /\ outcome[i].state # "fulfilled"
             /\ pc[i] = "done" => outcome[i] = [state |-> "rejected", val |-> log[i][k][2]]
       /\ \A t \in CallTags : Cardinality(Positions(i, t)) <= 1
       /\ outcome[i].state = "rejected" => \E t \in FailureTags : Logged(i, t)

C4_Settled ==
    \A i \in Invocations :
       outcome[i].state # "pending" => outcome'[i] = outcome[i] /\ log'[i] = log[i]

C4_FailurePropagatesUnchanged == []C4_Failure /\ [][C4_Settled]_vars

\* Rejections from each of the three stages have reached the caller: the
\* parser's in one invocation, a post-processor's in the other.
C4_Witness ==
    \E i, j \in Invocations :
       /\ pc[i] = "done" /\ outcome[i] = [state |-> "rejected", val |-> ParseError]
       /\ pc[j] = "done" /\ outcome[j] = [state |-> "rejected", val |-> PostError]
       /\ Logged(j, "postProcessor rejected")

\* C5: while an invocation's processRamlObj is running, the config field of
\* the object it was handed refers to that invocation's own configuration,
\* whatever the other invocation does.
C5_RendererSeesOwnConfig ==
    \A i \in Invocations :
       pc[i] = "rendering" => objConfig[ramlObj[i]] = config[i]

-----------------------------------------------------------------------------
(* The helpers the default processRamlObj injects onto the RAML object *)

NotCalled == [state |-> "pending", val |-> None]
Returned(v) == [state |-> "returned", val |-> v]
Threw(e) == [state |-> "threw", val |-> e]
TypeError == "TypeError"

\* The lengths of the securitySchemes sequences tried.
MaxSchemes == 3

SchemeNames == {"oauth2", "basic"}
SchemeEntries == {"schemeA", "schemeB"}
\* A mapping of a securitySchemes sequence: some scheme names, each with the
\* scheme object stored under it.
SchemeMappings == UNION {[names -> SchemeEntries] : names \in SUBSET SchemeNames}
SchemeSeqs == UNION {[1..n -> SchemeMappings] : n \in 0..MaxSchemes}
SchemeInputs ==
    [hasSchemes : {TRUE}, securitySchemes : SchemeSeqs, name : SchemeNames \cup {"custom"}]
    \cup [hasSchemes : {FALSE}, securitySchemes : {<<>>}, name : {"oauth2"}]

\* ramlObj.securitySchemes[index][name]
Lookup(mapping, name) == IF name \in DOMAIN mapping THEN mapping[name] ELSE Undefined

\* A scheme object is truthy, undefined is not.
Truthy(v) == v # Undefined

RECURSIVE SchemeLoopLast(_, _, _)
SchemeLoopLast(schemes, name, index) ==
    IF index < 1 THEN Returned(Undefined)
    ELSE IF Truthy(Lookup(schemes[index], name))
         THEN Returned(Lookup(schemes[index], name))
         ELSE SchemeLoopLast(schemes, name, index - 1)

\* A lookup that walks the sequence from its end.
FirstMatchFromEnd(schemes, name) == SchemeLoopLast(schemes, name, Len(schemes))

\* for (var index = 0; index < ramlObj.securitySchemes.length; ++index),
\* with index counted from 1.
RECURSIVE SchemeLoop(_, _, _)
SchemeLoop(schemes, name, index) ==
    IF ~(index <= Len(schemes)) THEN Returned(Undefined)
    ELSE IF Truthy(Lookup(schemes[index], name))
         THEN Returned(Lookup(schemes[index], name))
         ELSE SchemeLoop(schemes, name, index + 1)

FirstMatch(schemes, name) == SchemeLoop(schemes, name, 1)

\* ramlObj.securitySchemeWithName(name); reading .length of a securitySchemes
\* that is not there throws.
SecuritySchemeWithName(a) ==
    IF ~a.hasSchemes THEN Threw(TypeError)
    ELSE FirstMatch(a.securitySchemes, a.name)

CallSecuritySchemeWithName ==
    /\ fn = "securitySchemeWithName"
    /\ ret.state = "pending"
    /\ ret' = SecuritySchemeWithName(arg)
    /\ UNCHANGED <<fn, arg>>

InitSchemes ==
    /\ InitRender
    /\ fn = "securitySchemeWithName"
    /\ arg \in SchemeInputs
    /\ ret = NotCalled

NextSchemes == CallSecuritySchemeWithName /\ UNCHANGED renderVars

SpecSchemes == InitSchemes /\ [][NextSchemes]_vars

MaxKeys == 2
MaxScopes == 2

SecuredByKeys == {"oauth2", "basic", "custom"}
ScopeNames == {"read", "write"}
ScopeLists == UNION {[1..n -> ScopeNames] : n \in 0..MaxScopes}
\* What is stored under a key: null, a settings object without scopes, or a
\* settings object with a scopes list.
NullValue == [kind |-> "null", hasScopes |-> FALSE, scopes |-> <<>>]
SecuredByValues ==
    {NullValue}
    \cup [kind : {"settings"}, hasScopes : {FALSE}, scopes : {<<>>}]
    \cup [kind : {"settings"}, hasScopes : {TRUE}, scopes : ScopeLists]
\* A property that for-in enumerates: an own one, or one inherited from the
\* prototype (whose value the code never reads).
Properties ==
    [key : SecuredByKeys, own : {TRUE}, val : SecuredByValues]
    \cup [key : SecuredByKeys, own : {FALSE}, val : {NullValue}]
\* An object, as its properties in enumeration order.
Objects ==
    {ps \in UNION {[1..n -> Properties] : n \in 0..MaxKeys} :
        \A j, k \in 1..Len(ps) : j # k => ps[j].key # ps[k].key}
SecuredByInputs ==
    [type : {"object"}, str : {""}, props : Objects]
    \cup [type : {"null"}, str : {""}, props : {<<>>}]
    \cup [type : {"string"}, str : {"anonymous", "oauth2"}, props : {<<>>}]

\* A loop over the scopes that leaves out the last one.
RECURSIVE ScopesLoopShort(_, _, _)
ScopesLoopShort(scopes, index, out) ==
    IF ~(index < Len(scopes)) THEN out
    ELSE ScopesLoopShort(scopes, index + 1, out \o "<li>" \o scopes[index] \o "</li>")

\* for (var index = 0; index < securedBy[key].scopes.length; ++index)
\*   out += '<li>' + securedBy[key].scopes[index] + '</li>';
RECURSIVE ScopesLoop(_, _, _)
ScopesLoop(scopes, index, out) ==
    IF ~(index <= Len(scopes)) THEN out
    ELSE ScopesLoop(scopes, index + 1, out \o "<li>" \o scopes[index] \o "</li>")

\* if (securedBy.hasOwnProperty(key))
HasOwnProperty(prop) == prop.own

\* for (var key in securedBy) { ... }: the body of lines 85-94 for the
\* property at position k, with out as it stands.
RECURSIVE SecuredByLoop(_, _, _)
SecuredByLoop(props, k, out) ==
    IF k > Len(props) THEN Returned(out)
    ELSE IF ~HasOwnProperty(props[k]) THEN SecuredByLoop(props, k + 1, out)
    ELSE LET named == out \o "<b>" \o props[k].key \o "</b>"
             v == props[k].val
         IN IF v.kind = "null" \/ ~v.hasScopes THEN Threw(TypeError)
            ELSE IF Len(v.scopes) # 0
                 THEN SecuredByLoop(props, k + 1,
                         ScopesLoop(v.scopes, 1, named \o " with scopes:<ul>") \o "</ul>")
                 ELSE SecuredByLoop(props, k + 1, named)

\* ramlObj.renderSecuredBy(securedBy); typeof null is 'object', and for-in
\* over null runs no iteration.
RenderSecuredBy(securedBy) ==
    IF securedBy.type \in {"object", "null"}
    THEN SecuredByLoop(securedBy.props, 1, "")
    ELSE Returned("<b>" \o securedBy.str \o "</b>")

CallRenderSecuredBy ==
    /\ fn = "renderSecuredBy"
    /\ ret.state = "pending"
    /\ ret' = RenderSecuredBy(arg)
    /\ UNCHANGED <<fn, arg>>

InitSecuredBy ==
    /\ InitRender
    /\ fn = "renderSecuredBy"
    /\ arg \in SecuredByInputs
    /\ ret = NotCalled

NextSecuredBy == CallRenderSecuredBy /\ UNCHANGED renderVars

SpecSecuredBy == InitSecuredBy /\ [][NextSecuredBy]_vars

RECURSIVE Concat(_)
Concat(strs) == IF strs = <<>> THEN "" ELSE Head(strs) \o Concat(Tail(strs))

\* The fragment the claim gives for one own key.
KeyFragment(prop) ==
    "<b>" \o prop.key \o "</b>"
    \o (IF prop.val.scopes # <<>>
        THEN " with scopes:<ul>"
             \o Concat([n \in 1..Len(prop.val.scopes) |-> "<li>" \o prop.val.scopes[n] \o "</li>"])
             \o "</ul>"
        ELSE "")

\* The security requirements C6 speaks of: a string, or an object each of
\* whose own keys holds a settings object with a scopes list.
MapsNamesToScopes(securedBy) ==
    \/ securedBy.type = "string"
    \/ /\ securedBy.type = "object"
       /\ \A k \in 1..Len(securedBy.props) :
             securedBy.props[k].own => securedBy.props[k].val.hasScopes

OwnProps(props) == SelectSeq(props, LAMBDA prop : prop.own)

\* C6: for an object mapping scheme names to {scopes}, renderSecuredBy returns
\* the concatenation, in key order, of '<b>name</b>' for each own key, followed
\* exactly when the key's scopes are non-empty by ' with scopes:<ul>', an
\* '<li>scope</li>' per scope in list order, and '</ul>'; for a string s it
\* returns '<b>s</b>'.
C6_RenderSecuredBy ==
    (fn = "renderSecuredBy" /\ ret.state # "pending" /\ MapsNamesToScopes(arg))
    => /\ ret.state = "returned"
       /\ arg.type = "string" => ret.val = "<b>" \o arg.str \o "</b>"
       /\ arg.type = "object" =>
             ret.val = Concat([k \in 1..Len(OwnProps(arg.props)) |->
                                  KeyFragment(OwnProps(arg.props)[k])])
       /\ arg = [type |-> "object", str |-> "",
                 props |-> <<[key |-> "oauth2", own |-> TRUE,
                              val |-> [kind |-> "settings", hasScopes |-> TRUE,
                                       scopes |-> <<"read", "write">>]]>>]
            => ret.val = "<b>oauth2</b> with scopes:<ul><li>read</li><li>write</li></ul>"
       /\ arg = [type |-> "object", str |-> "",
                 props |-> <<[key |-> "basic", own |-> TRUE,
                              val |-> [kind |-> "settings", hasScopes |-> TRUE,
                                       scopes |-> <<>>]]>>]
            => ret.val = "<b>basic</b>"
       /\ arg = [type |-> "string", str |-> "anonymous", props |-> <<>>]
            => ret.val = "<b>anonymous</b>"

\* A requirement with a scoped key followed by a key without scopes was rendered.
C6_Witness ==
    /\ fn = "renderSecuredBy"
    /\ arg.type = "object"
    /\ Len(arg.props) = 2
    /\ ret = [state |-> "returned",
              val |-> "<b>oauth2</b> with scopes:<ul><li>write</li><li>read</li></ul><b>basic</b>"]

\* C10: renderSecuredBy returns a string and never throws, for a string, for
\* null, and for an object whose entries may be null or settings without a
\* scopes list.
C10_RenderSecuredByTotal ==
    (fn = "renderSecuredBy" /\ ret.state # "pending") => ret.state = "returned"

-----------------------------------------------------------------------------
(* getDefaultConfig and the default processRamlObj *)

\* The number of fragments a template renderer's output is put together from.
MaxChunks == 3

\* Strings are sequences of characters here.
Quot == <<"&", "q", "u", "o", "t", ";">>
DoubleQuote == "\""
Fragments == {Quot, <<"&">>, <<"&", "q", "u", "o">>, <<"t", ";">>,
              <<"q", "u", "o", "t", ";">>, <<DoubleQuote>>, <<"a">>}
RECURSIVE Flatten(_)
Flatten(chunks) == IF chunks = <<>> THEN <<>> ELSE Head(chunks) \o Flatten(Tail(chunks))
\* What env.render may return.
RendererOutputs ==
    {Flatten(chunks) : chunks \in UNION {[1..n -> Fragments] : n \in 0..MaxChunks}}

MainTemplates == {Undefined, "", "custom.nunjucks"}
TemplatesPaths == {Undefined, "/my/templates"}
BundledTemplate == "./lib/template.nunjucks"
Dirname == "__dirname"

\* !mainTemplate
Falsy(v) == v \in {Undefined, ""}

\* mainTemplate = './lib/template.nunjucks' when none is given
ResolveMainTemplate(mainTemplate) ==
    IF Falsy(mainTemplate) THEN BundledTemplate ELSE mainTemplate

\* A builder that keeps the caller's search path with the bundled template.
ResolveTemplatesPathKept(mainTemplate, templatesPath) == templatesPath

\* templatesPath = __dirname when no main template is given
ResolveTemplatesPath(mainTemplate, templatesPath) ==
    IF Falsy(mainTemplate) THEN Dirname ELSE templatesPath

MatchesAt(str, p, pattern) ==
    /\ p + Len(pattern) - 1 <= Len(str)
    /\ SubSeq(str, p, p + Len(pattern) - 1) = pattern

RECURSIVE ReplaceFrom(_, _, _, _)
ReplaceFrom(str, p, pattern, by) ==
    IF p > Len(str) THEN <<>>
    ELSE IF MatchesAt(str, p, pattern)
         THEN <<by>> \o ReplaceFrom(str, p + Len(pattern), pattern, by)
         ELSE <<str[p]>> \o ReplaceFrom(str, p + 1, pattern, by)

RECURSIVE ReplaceFirstFrom(_, _, _, _)
ReplaceFirstFrom(str, p, pattern, by) ==
    IF p > Len(str) THEN <<>>
    ELSE IF MatchesAt(str, p, pattern)
         THEN <<by>> \o SubSeq(str, p + Len(pattern), Len(str))
         ELSE <<str[p]>> \o ReplaceFirstFrom(str, p + 1, pattern, by)

\* A replace without the g flag: html.replace('&quot;', '"').
UnescapeQuotesOnce(html) == ReplaceFirstFrom(html, 1, Quot, DoubleQuote)

\* html.replace(/&quot;/g, '"'): every match, found scanning from the left,
\* each scan going on after the match before.
UnescapeQuotes(html) == ReplaceFrom(html, 1, Quot, DoubleQuote)

\* getDefaultConfig(mainTemplate, templatesPath): the two callables, closed
\* over the resolved main template and search path.
GetDefaultConfig(mainTemplate, templatesPath) ==
    /\ fn = "getDefaultConfig"
    /\ fn' = "processRamlObj"
    /\ arg' = [mainTemplate |-> mainTemplate, templatesPath |-> templatesPath,
               rendered |-> <<>>]
    /\ ret' = [keys |-> {"processRamlObj", "postProcessHtml"},
               mainTemplate |-> ResolveMainTemplate(mainTemplate),
               templatesPath |-> ResolveTemplatesPath(mainTemplate, templatesPath),
               configured |-> None, template |-> None,
               state |-> "pending", html |-> <<>>]

\* The default processRamlObj: nunjucks.configure(templatesPath),
\* env.render(mainTemplate, ramlObj) giving rendered, the un-escaping, and the
\* promise resolved with the html.
DefaultProcessRamlObj(rendered) ==
    /\ fn = "processRamlObj"
    /\ fn' = "resolved"
    /\ arg' = [arg EXCEPT !.rendered = rendered]
    /\ ret' = [ret EXCEPT !.configured = ret.templatesPath,
                          !.template = ret.mainTemplate,
                          !.state = "fulfilled",
                          !.html = UnescapeQuotes(rendered)]

InitDefault ==
    /\ InitRender
    /\ fn = "getDefaultConfig"
    /\ arg = [mainTemplate |-> Undefined, templatesPath |-> Undefined, rendered |-> <<>>]
    /\ ret = [keys |-> {}, mainTemplate |-> None, templatesPath |-> None,
              configured |-> None, template |-> None, state |-> "pending", html |-> <<>>]

NextDefault ==
    \/ \E mainTemplate \in MainTemplates, templatesPath \in TemplatesPaths :
          GetDefaultConfig(mainTemplate, templatesPath) /\ UNCHANGED renderVars
    \/ \E rendered \in RendererOutputs :
          DefaultProcessRamlObj(rendered) /\ UNCHANGED renderVars

SpecDefault == InitDefault /\ [][NextDefault]_vars

Occurrences(str) == {p \in 1..Len(str) : MatchesAt(str, p, Quot)}
Covered(str, p) == \E q \in Occurrences(str) : q <= p /\ p < q + Len(Quot)
\* How far the character at p has moved left in the output.
Shift(str, p) == (Len(Quot) - 1) * Cardinality({q \in Occurrences(str) : q < p})

\* C8: the html the default processRamlObj resolves with holds no '&quot;';
\* each '&quot;' of the renderer's output has become one '"', and every other
\* character is where it was, in order.
C8_NoQuotEntityLeft ==
    fn = "resolved"
    => LET in == arg.rendered
           out == ret.html
       IN /\ Occurrences(out) = {}
          /\ Len(out) = Len(in) - (Len(Quot) - 1) * Cardinality(Occurrences(in))
          /\ \A p \in 1..Len(in) :
                /\ p \in Occurrences(in) => out[p - Shift(in, p)] = DoubleQuote
                /\ ~Covered(in, p) => out[p - Shift(in, p)] = in[p]

\* An output with two entities, the second one put together from two
\* fragments around a quote that was already literal, was un-escaped.
C8_Witness ==
    /\ fn = "resolved"
    /\ arg.rendered = Quot \o <<DoubleQuote>> \o Quot
    /\ ret.html = <<DoubleQuote, DoubleQuote, DoubleQuote>>

====
